---- MODULE Spec2Model ----
(***************************************************************************)
(* Rent-versus-buy calculator (src/lib/calculations/calculator.ts), the    *)
(* growth-rate analytics of the ABS client (src/lib/api/abs-api), and the  *)
(* page that calculates again on every submission of the form.             *)
(*                                                                         *)
(* Numbers.  The source computes in IEEE doubles.  The model computes the  *)
(* pure functions (stamp duty, LMI, repayment) in exact rational           *)
(* arithmetic, [n |-> numerator, d |-> denominator > 0] in lowest terms,   *)
(* and holds the amounts of the year loop in whole dollars, a product with *)
(* a rate being rounded to the nearest dollar.  The loans of the scenarios *)
(* are chosen so that the repayment and every monthly interest are whole   *)
(* numbers, so the amortization is exact.  The value 0/0 of the source is  *)
(* the distinguished value NaN, which every operation propagates and every *)
(* comparison answers FALSE for, as in the source language.                *)
(***************************************************************************)
EXTENDS Integers, Sequences, FiniteSets, TLC

VARIABLES
  call,                    \* the function called and its arguments
  ret,                     \* its outcome: pending, returned (value), thrown (error)
  pc,                      \* position in calculateRentVsBuy ("idle" outside it)
  upfrontCosts,            \* stampDuty, lmi, legalFees, inspections, total
  monthlyRepayment,
  year,
  month,
  currentPropertyValue,
  currentLoanBalance,
  yearlyInterestPaid,
  cumulativeOwnershipCost,
  cumulativeRentPaid,
  investmentBalance,
  currentWeeklyRent,
  yearlyBreakdown,         \* the timeline: a sequence of YearlyResult records
  breakEvenYear,
  marginalTaxRate,
  completed,               \* the earlier invocations of the page: call and outcome
  cacheFile,               \* data/abs-cache.json: absent, unreadable, or data and cachedAt
  now,                     \* Date.now(), in days
  inflight,                \* the GET request awaiting the ABS fetch, if any
  served                   \* the GET requests answered so far, with their responses

locals == <<upfrontCosts, monthlyRepayment, year, month, currentPropertyValue,
            currentLoanBalance, yearlyInterestPaid, cumulativeOwnershipCost,
            cumulativeRentPaid, investmentBalance, currentWeeklyRent, yearlyBreakdown,
            breakEvenYear, marginalTaxRate>>

vars == <<call, ret, pc, upfrontCosts, monthlyRepayment, year, month,
          currentPropertyValue, currentLoanBalance, yearlyInterestPaid,
          cumulativeOwnershipCost, cumulativeRentPaid, investmentBalance,
          currentWeeklyRent, yearlyBreakdown, breakEvenYear, marginalTaxRate,
          completed, cacheFile, now, inflight, served>>

\* The state of the growth-rates route.
server == <<cacheFile, now, inflight, served>>

Pending == [state |-> "pending"]

Returned(v) == [state |-> "returned", value |-> v]

Thrown(e) == [state |-> "thrown", error |-> e]

----------------------------------------------------------------------------
(* Arithmetic *)

Abs(x) == IF x < 0 THEN -x ELSE x

Min(a, b) == IF a <= b THEN a ELSE b

RECURSIVE GCD(_, _)
GCD(a, b) == IF b = 0 THEN a ELSE GCD(b, a % b)

RECURSIVE IPow(_, _)
IPow(b, e) ==
  IF e = 0 THEN 1
  ELSE LET h == IPow(b, e \div 2)
       IN  IF e % 2 = 0 THEN h * h ELSE h * h * b

\* The rational n/d (d > 0) in lowest terms.
Rat(n, d) ==
  LET g == GCD(Abs(n), d)
  IN  [n |-> n \div g, d |-> d \div g]

RInt(x) == [n |-> x, d |-> 1]

RAdd(a, b) == Rat(a.n * b.d + b.n * a.d, a.d * b.d)

RSub(a, b) == Rat(a.n * b.d - b.n * a.d, a.d * b.d)

RMul(a, b) ==
  LET x == Rat(a.n, b.d)
      y == Rat(b.n, a.d)
  IN  [n |-> x.n * y.n, d |-> x.d * y.d]

\* a / b, b > 0
RDiv(a, b) == RMul(a, [n |-> b.d, d |-> b.n])

RLe(a, b) == a.n * b.d <= b.n * a.d

\* Math.round of a rational: the nearest integer, a half rounding up.
MathRound(a) == (2 * a.n + a.d) \div (2 * a.d)

\* An amount held in whole dollars.
Dollars(a) == MathRound(a)

\* x * num / den rounded to the nearest integer, without forming x * num.
MulDiv(x, num, den) ==
  (x \div den) * num + (2 * ((x % den) * num) + den) \div (2 * den)

\* The value of 0/0.
NaN == -2000000001

IsNaN(x) == x = NaN

Add(a, b) == IF IsNaN(a) \/ IsNaN(b) THEN NaN ELSE a + b

Sub(a, b) == IF IsNaN(a) \/ IsNaN(b) THEN NaN ELSE a - b

\* x * rate, the rate a rational.
Times(x, rate) == IF IsNaN(x) THEN NaN ELSE MulDiv(x, rate.n, rate.d)

Gt(a, b) == ~IsNaN(a) /\ ~IsNaN(b) /\ a > b

Lt(a, b) == ~IsNaN(a) /\ ~IsNaN(b) /\ a < b

Le(a, b) == ~IsNaN(a) /\ ~IsNaN(b) /\ a <= b

Unfloored(x) == x

\* Math.max(0, x)
Max0(x) == IF IsNaN(x) THEN NaN ELSE IF x > 0 THEN x ELSE 0

----------------------------------------------------------------------------
(* Configuration: src/lib/config (au-constants) *)

BracketsWithGap ==
  << [threshold |-> 0,       rate |-> Rat(0, 1),       base |-> 0],
     [threshold |-> 5000,    rate |-> Rat(15, 1000),   base |-> 0],
     [threshold |-> 75000,   rate |-> Rat(35, 1000),   base |-> 1050],
     [threshold |-> 540000,  rate |-> Rat(45, 1000),   base |-> 17000],
     [threshold |-> 1000000, rate |-> Rat(575, 10000), base |-> 38025] >>

QLD_STAMP_DUTY_BRACKETS ==
  << [threshold |-> 0,       rate |-> Rat(0, 1),       base |-> 0],
     [threshold |-> 5000,    rate |-> Rat(15, 1000),   base |-> 0],
     [threshold |-> 75000,   rate |-> Rat(35, 1000),   base |-> 1050],
     [threshold |-> 540000,  rate |-> Rat(45, 1000),   base |-> 17325],
     [threshold |-> 1000000, rate |-> Rat(575, 10000), base |-> 38025] >>

AU_TAX_BRACKETS ==
  << [threshold |-> 0,      rate |-> Rat(0, 1),    base |-> 0],
     [threshold |-> 18200,  rate |-> Rat(16, 100), base |-> 0],
     [threshold |-> 45000,  rate |-> Rat(30, 100), base |-> 4288],
     [threshold |-> 135000, rate |-> Rat(37, 100), base |-> 31288],
     [threshold |-> 190000, rate |-> Rat(45, 100), base |-> 51638] >>

MEDICARE_LEVY_RATE == Rat(2, 100)

QLD_PROPERTY_COSTS ==
  [councilRates |-> 2000, waterRates |-> 1200, insurance |-> 1500,
   maintenanceRate |-> Rat(1, 100)]

LOAN_DEFAULTS ==
  [lvrMax |-> Rat(95, 100), lvrNoLMI |-> Rat(80, 100), lmiRate |-> Rat(3, 100),
   interestRate |-> Rat(65, 1000), loanTermYears |-> 30]

FIVE_PERCENT_DEPOSIT_SCHEME ==
  [enabled |-> TRUE, minimumDeposit |-> Rat(5, 100), propertyCapBrisbane |-> 1000000]

INVESTMENT_ASSUMPTIONS ==
  [propertyGrowthRate |-> Rat(5, 100), rentalYieldGrowthRate |-> Rat(3, 100),
   alternativeInvestmentReturn |-> Rat(8, 100)]

TRANSACTION_COSTS ==
  [buyerLegalFees |-> 1500, buildingInspection |-> 500, pestInspection |-> 300]

----------------------------------------------------------------------------
(* calculateStampDuty *)

BracketDutyNoBase(bracket, taxableInBracket) ==
  RMul(RInt(taxableInBracket), bracket.rate)

\* duty = bracket.base + taxableInBracket * bracket.rate
BracketDuty(bracket, taxableInBracket) ==
  RAdd(RInt(bracket.base), RMul(RInt(taxableInBracket), bracket.rate))

\* The loop of calculateStampDuty from bracket i on, duty being the value so far.
RECURSIVE StampDutyLoop(_, _, _)
StampDutyLoop(propertyPrice, i, duty) ==
  IF i > Len(QLD_STAMP_DUTY_BRACKETS) THEN duty
  ELSE
    LET bracket == QLD_STAMP_DUTY_BRACKETS[i]
    IN  IF propertyPrice <= bracket.threshold THEN duty
        ELSE
          LET nextThreshold ==
                IF i + 1 <= Len(QLD_STAMP_DUTY_BRACKETS)
                   /\ QLD_STAMP_DUTY_BRACKETS[i + 1].threshold # 0
                THEN QLD_STAMP_DUTY_BRACKETS[i + 1].threshold
                ELSE propertyPrice
              taxableInBracket == Min(propertyPrice, nextThreshold) - bracket.threshold
          IN  StampDutyLoop(propertyPrice, i + 1, BracketDuty(bracket, taxableInBracket))

FirstHomeConcessionWrong(propertyPrice, isFirstHome) ==
  isFirstHome /\ propertyPrice < 500000

FirstHomeConcession(propertyPrice, isFirstHome) ==
  isFirstHome /\ propertyPrice <= 500000

calculateStampDuty(propertyPrice, isFirstHome) ==
  IF FirstHomeConcession(propertyPrice, isFirstHome) THEN 0
  ELSE MathRound(StampDutyLoop(propertyPrice, 1, RInt(0)))

----------------------------------------------------------------------------
(* calculateLMI *)

\* lvr <= LOAN_DEFAULTS.lvrNoLMI
NoLMIRequired(lvr) == RLe(lvr, LOAN_DEFAULTS.lvrNoLMI)

SchemeEligibleBelowCap(propertyPrice, depositPercent, isFirstHome, use5PercentScheme) ==
  /\ use5PercentScheme
  /\ isFirstHome
  /\ FIVE_PERCENT_DEPOSIT_SCHEME.enabled
  /\ propertyPrice < FIVE_PERCENT_DEPOSIT_SCHEME.propertyCapBrisbane
  /\ RLe(FIVE_PERCENT_DEPOSIT_SCHEME.minimumDeposit, depositPercent)

SchemeFlagAlone(propertyPrice, depositPercent, isFirstHome, use5PercentScheme) ==
  use5PercentScheme

\* The eligibility test of the 5% Deposit Scheme.
SchemeEligible(propertyPrice, depositPercent, isFirstHome, use5PercentScheme) ==
  /\ use5PercentScheme
  /\ isFirstHome
  /\ FIVE_PERCENT_DEPOSIT_SCHEME.enabled
  /\ propertyPrice <= FIVE_PERCENT_DEPOSIT_SCHEME.propertyCapBrisbane
  /\ RLe(FIVE_PERCENT_DEPOSIT_SCHEME.minimumDeposit, depositPercent)

\* propertyPrice > 0 (a price of 0 makes lvr NaN or infinite in the source).
calculateLMI(loanAmount, propertyPrice, isFirstHome, use5PercentScheme) ==
  LET lvr == Rat(loanAmount, propertyPrice)
      depositPercent == RSub(RInt(1), lvr)
      lmiRate == RMul(RMul(LOAN_DEFAULTS.lmiRate, RSub(lvr, LOAN_DEFAULTS.lvrNoLMI)), RInt(2))
  IN  IF SchemeEligible(propertyPrice, depositPercent, isFirstHome, use5PercentScheme)
      THEN 0
      ELSE IF NoLMIRequired(lvr) THEN 0
      ELSE MathRound(RMul(RInt(loanAmount), lmiRate))

----------------------------------------------------------------------------
(* calculateMonthlyRepayment *)

\* years >= 1.  annualRate is a rational.  The value is a whole number of dollars for
\* the loans the scenarios draw; 0/0 (annualRate = 0) is NaN.
calculateMonthlyRepayment(loanAmount, annualRate, years) ==
  LET monthlyRate == RMul(annualRate, Rat(1, 12))
      numPayments == years * 12
      onePlus == RAdd(RInt(1), monthlyRate)
      pow == [n |-> IPow(onePlus.n, numPayments), d |-> IPow(onePlus.d, numPayments)]
      denominator == RSub(pow, RInt(1))
  IN  IF denominator.n = 0 THEN NaN
      ELSE Dollars(RMul(RInt(loanAmount), RDiv(RMul(monthlyRate, pow), denominator)))

----------------------------------------------------------------------------
(* calculateMarginalTaxRate *)

RECURSIVE TaxBracketScanInclusive(_, _)
TaxBracketScanInclusive(income, i) ==
  IF i < 1 THEN Rat(0, 1)
  ELSE IF income >= AU_TAX_BRACKETS[i].threshold THEN AU_TAX_BRACKETS[i].rate
  ELSE TaxBracketScanInclusive(income, i - 1)

RECURSIVE TaxBracketScan(_, _)
TaxBracketScan(income, i) ==
  IF i < 1 THEN Rat(0, 1)
  ELSE IF income > AU_TAX_BRACKETS[i].threshold THEN AU_TAX_BRACKETS[i].rate
  ELSE TaxBracketScan(income, i - 1)

calculateMarginalTaxRate(income) ==
  RAdd(TaxBracketScan(income, Len(AU_TAX_BRACKETS)), MEDICARE_LEVY_RATE)

----------------------------------------------------------------------------
(* calculateGrowthRate, calculateGrowthScenarios (abs-api).  data is the    *)
(* sequence of the observations' values, in period order.                   *)

InsufficientPoints == "Insufficient data points to calculate growth rate"

InvalidData == "Invalid data: zero or negative prices"

InsufficientData == "Insufficient data to calculate scenarios (minimum 5 years required)"

CagrWholeYears(latestValue, oldValue, quartersBack) ==
  [latest |-> latestValue, base |-> oldValue, quarters |-> 4 * (quartersBack \div 4)]

CagrInverted(latestValue, oldValue, quartersBack) ==
  [latest |-> oldValue, base |-> latestValue, quarters |-> quartersBack]

\* Math.pow(latestValue / oldValue, 1 / years) - 1 with years = quartersBack / 4,
\* kept as its three operands.
Cagr(latestValue, oldValue, quartersBack) ==
  [latest |-> latestValue, base |-> oldValue, quarters |-> quartersBack]

\* r = y^q, by q exact divisions
RECURSIVE IsPower(_, _, _)
IsPower(r, y, q) ==
  IF q = 0 THEN r = 1
  ELSE r % y = 0 /\ IsPower(r \div y, y, q - 1)

\* The greatest quarterly factor a series is drawn with.
MaxFactor == 3

\* The whole numbers y with y^quarters = latest / base: the quarterly factor of the
\* window, where it is a whole number.
WholeRoots(c) ==
  {y \in 1..MaxFactor : c.base > 0 /\ c.latest % c.base = 0
                    /\ IsPower(c.latest \div c.base, y, c.quarters)}

\* Math.pow(latest / base, 4 / quarters) where the quarterly factor is a whole number,
\* and 0 where it is not.
AnnualFactor(c) ==
  IF WholeRoots(c) = {} THEN 0
  ELSE IPow(CHOOSE y \in WholeRoots(c) : TRUE, 4)

calculateGrowthRate(data, yearsToAverage) ==
  IF Len(data) < 4 THEN Thrown(InsufficientPoints)
  ELSE
    LET latestValue == data[Len(data)]
        quartersBack == Min(yearsToAverage * 4, Len(data) - 1)
        oldValue == data[Len(data) - quartersBack]
    IN  IF oldValue = 0 THEN Thrown(InvalidData)
        ELSE Returned(Cagr(latestValue, oldValue, quartersBack))

EnoughDataLoose(data) == Len(data) > 20

\* the negation of data.length < 20
EnoughData(data) == Len(data) >= 20

calculateGrowthScenarios(data) ==
  IF ~EnoughData(data) THEN Thrown(InsufficientData)
  ELSE
    LET five == calculateGrowthRate(data, 5)
        ten == calculateGrowthRate(data, 10)
        fifteen == calculateGrowthRate(data, 15)
    IN  IF five.state = "thrown" THEN five
        ELSE IF ten.state = "thrown" THEN ten
        ELSE IF fifteen.state = "thrown" THEN fifteen
        ELSE Returned([fiveYear |-> five.value, tenYear |-> ten.value,
                       fifteenYear |-> fifteen.value])

----------------------------------------------------------------------------
(* fetchBrisbaneGrowthRates (abs-api).  A fetch of a series either fails or *)
(* gives the series; a scenario's value is computed where the series'       *)
(* quarterly factor is a whole number.                                      *)

FetchError == "ABS API error"

\* The three scenarios of a series as numbers: Math.pow(...) - 1.
ScenarioValues(scenarios) ==
  [fiveYear |-> RInt(AnnualFactor(scenarios.fiveYear) - 1),
   tenYear |-> RInt(AnnualFactor(scenarios.tenYear) - 1),
   fifteenYear |-> RInt(AnnualFactor(scenarios.fifteenYear) - 1)]

BlendSwapped(houses, units) == RAdd(RMul(houses, Rat(4, 10)), RMul(units, Rat(6, 10)))

\* houses * 0.6 + units * 0.4
Blend(houses, units) == RAdd(RMul(houses, Rat(6, 10)), RMul(units, Rat(4, 10)))

fetchBrisbaneGrowthRates(housesData, unitsData) ==
  IF ~housesData.ok \/ ~unitsData.ok THEN Thrown(FetchError)
  ELSE
    LET houseScenarios == calculateGrowthScenarios(housesData.data)
        unitScenarios == calculateGrowthScenarios(unitsData.data)
    IN  IF houseScenarios.state = "thrown" THEN houseScenarios
        ELSE IF unitScenarios.state = "thrown" THEN unitScenarios
        ELSE
          LET houses == ScenarioValues(houseScenarios.value)
              units == ScenarioValues(unitScenarios.value)
              allResidentialScenarios ==
                [fiveYear |-> Blend(houses.fiveYear, units.fiveYear),
                 tenYear |-> Blend(houses.tenYear, units.tenYear),
                 fifteenYear |-> Blend(houses.fifteenYear, units.fifteenYear)]
          IN  Returned([region |-> "Brisbane",
                        houses |-> houses,
                        units |-> units,
                        allResidential |-> allResidentialScenarios,
                        historicalData |-> [houses |-> housesData.data,
                                            units |-> unitsData.data],
                        totalQuarters |-> Len(housesData.data),
                        source |-> "ABS_RES_DWELL",
                        houseGrowthRate |-> houses.tenYear,
                        unitGrowthRate |-> units.tenYear,
                        allResidentialGrowthRate |-> allResidentialScenarios.tenYear])

----------------------------------------------------------------------------
(* calculateRentVsBuy.  An optional field or argument is <<>> when absent   *)
(* and <<v>> when given.                                                    *)

\* opt ?? default, and a default parameter value
OrElse(opt, default) == IF opt = <<>> THEN default ELSE opt[1]

inputs == call.inputs

yearsToProjectExclusive == OrElse(call.yearsToProject, 30) - 1

yearsToProject == OrElse(call.yearsToProject, 30)

loanAmount == inputs.propertyPrice - inputs.deposit

councilRates == OrElse(inputs.councilRates, QLD_PROPERTY_COSTS.councilRates)

waterRates == OrElse(inputs.waterRates, QLD_PROPERTY_COSTS.waterRates)

insurance == OrElse(inputs.insurance, QLD_PROPERTY_COSTS.insurance)

maintenanceRate == OrElse(inputs.maintenanceRate, QLD_PROPERTY_COSTS.maintenanceRate)

propertyGrowthRate ==
  OrElse(inputs.propertyGrowthRate, INVESTMENT_ASSUMPTIONS.propertyGrowthRate)

rentalYieldGrowthRate ==
  OrElse(inputs.rentalYieldGrowthRate, INVESTMENT_ASSUMPTIONS.rentalYieldGrowthRate)

monthlyRate == RMul(inputs.loanInterestRate, Rat(1, 12))

annualRepaymentAfterTax ==
  IF IsNaN(monthlyRepayment) THEN NaN
  ELSE Times(monthlyRepayment * 12, RSub(RInt(1), marginalTaxRate))

annualRepaymentWhileOwing ==
  IF IsNaN(monthlyRepayment) THEN NaN
  ELSE IF currentLoanBalance = 0 THEN 0 ELSE monthlyRepayment * 12

annualRepayment == IF IsNaN(monthlyRepayment) THEN NaN ELSE monthlyRepayment * 12

\* x * (1 + rate)
Grow(x, rate) == Times(x, RAdd(RInt(1), rate))

AdvantageTiesToBuying(netPositionBuying, netPositionRenting) ==
  IF Gt(netPositionBuying, netPositionRenting) \/ netPositionBuying = netPositionRenting
  THEN "buying" ELSE "renting"

\* netPositionBuying > netPositionRenting ? 'buying' : 'renting'
Advantage(netPositionBuying, netPositionRenting) ==
  IF Gt(netPositionBuying, netPositionRenting) THEN "buying" ELSE "renting"

RentAfterGrowth(weeklyRent) == Grow(weeklyRent, rentalYieldGrowthRate) * 52

\* currentWeeklyRent * 52, before the rent grows
RentForYear(weeklyRent) == weeklyRent * 52

\* The two-step update of investmentBalance.
InvestmentUpdate(balance, yearlySavings) ==
  LET grown == Add(Grow(balance, INVESTMENT_ASSUMPTIONS.alternativeInvestmentReturn),
                   IF Gt(yearlySavings, 0) THEN yearlySavings ELSE 0)
  IN  IF Lt(yearlySavings, 0) THEN Add(grown, yearlySavings) ELSE grown

\* breakEvenYear when no year's advantage is 'buying' (null).
NoYear == 0

LastBuyingYear(breakdown) ==
  LET buying == {i \in 1..Len(breakdown) : breakdown[i].advantage = "buying"}
  IN  IF buying = {} THEN NoYear
      ELSE breakdown[CHOOSE i \in buying : \A j \in buying : j <= i].year

\* The scan for the break-even year: the first record whose advantage is 'buying'.
FirstBuyingYear(breakdown) ==
  LET buying == {i \in 1..Len(breakdown) : breakdown[i].advantage = "buying"}
  IN  IF buying = {} THEN NoYear
      ELSE breakdown[CHOOSE i \in buying : \A j \in buying : i <= j].year

SharedTimeline == yearlyBreakdown

\* const yearlyBreakdown: YearlyResult[] = []
NewTimeline == <<>>

TypeError == "TypeError: Cannot read properties of undefined (reading 'advantage')"

NoUpfront(totalUpfront) == 0

\* let cumulativeOwnershipCost = totalUpfront
InitialOwnershipCost(totalUpfront) == totalUpfront

Start ==
  /\ pc = "start"
  /\ LET stampDuty == calculateStampDuty(inputs.propertyPrice, inputs.isFirstHome)
         lmi == calculateLMI(loanAmount, inputs.propertyPrice, inputs.isFirstHome,
                             OrElse(inputs.use5PercentScheme, FALSE))
         legalFees == TRANSACTION_COSTS.buyerLegalFees
         inspections == TRANSACTION_COSTS.buildingInspection + TRANSACTION_COSTS.pestInspection
     IN  /\ upfrontCosts' = [stampDuty |-> stampDuty, lmi |-> lmi, legalFees |-> legalFees,
                             inspections |-> inspections,
                             total |-> stampDuty + lmi + legalFees + inspections]
         /\ cumulativeOwnershipCost' =
              InitialOwnershipCost(stampDuty + lmi + legalFees + inspections)
  /\ monthlyRepayment' = calculateMonthlyRepayment(loanAmount, inputs.loanInterestRate,
                                                   inputs.loanTermYears)
  /\ marginalTaxRate' = calculateMarginalTaxRate(inputs.annualIncome)
  /\ yearlyBreakdown' = NewTimeline
  /\ currentPropertyValue' = inputs.propertyPrice
  /\ currentLoanBalance' = loanAmount
  /\ cumulativeRentPaid' = 0
  /\ investmentBalance' = inputs.deposit
  /\ currentWeeklyRent' = inputs.weeklyRent
  /\ year' = 1
  /\ pc' = "year"
  /\ UNCHANGED <<call, ret, month, yearlyInterestPaid, breakEvenYear>>
  /\ UNCHANGED <<completed, server>>

YearBeginGrowthLater ==
  /\ pc = "year"
  /\ year <= yearsToProject
  /\ currentPropertyValue' =
       IF year = 1 THEN currentPropertyValue
       ELSE Grow(currentPropertyValue, propertyGrowthRate)
  /\ yearlyInterestPaid' = 0
  /\ month' = 0
  /\ pc' = "month"
  /\ UNCHANGED <<call, ret, upfrontCosts, monthlyRepayment, year, currentLoanBalance,
                 cumulativeOwnershipCost, cumulativeRentPaid, investmentBalance,
                 currentWeeklyRent, yearlyBreakdown, breakEvenYear>>
  /\ UNCHANGED <<completed, marginalTaxRate, server>>

\* The head of the year loop's body: appreciation, and the month loop set up.
YearBegin ==
  /\ pc = "year"
  /\ year <= yearsToProject
  /\ currentPropertyValue' = Grow(currentPropertyValue, propertyGrowthRate)
  /\ yearlyInterestPaid' = 0
  /\ month' = 0
  /\ pc' = "month"
  /\ UNCHANGED <<call, ret, upfrontCosts, monthlyRepayment, year, currentLoanBalance,
                 cumulativeOwnershipCost, cumulativeRentPaid, investmentBalance,
                 currentWeeklyRent, yearlyBreakdown, breakEvenYear>>
  /\ UNCHANGED <<completed, marginalTaxRate, server>>

\* One iteration of the month loop.
MonthStep ==
  /\ pc = "month"
  /\ month < 12
  /\ LET interestPayment == Times(currentLoanBalance, monthlyRate)
         principalPayment == Sub(monthlyRepayment, interestPayment)
         balance == Max0(Sub(currentLoanBalance, principalPayment))
     IN  /\ yearlyInterestPaid' = Add(yearlyInterestPaid, interestPayment)
         /\ currentLoanBalance' = balance
         /\ IF balance = 0
            THEN pc' = "yearEnd" /\ month' = month
            ELSE pc' = "month" /\ month' = month + 1
  /\ UNCHANGED <<call, ret, upfrontCosts, monthlyRepayment, year, currentPropertyValue,
                 cumulativeOwnershipCost, cumulativeRentPaid, investmentBalance,
                 currentWeeklyRent, yearlyBreakdown, breakEvenYear>>
  /\ UNCHANGED <<completed, marginalTaxRate, server>>

MonthLoopRestart ==
  /\ pc = "month"
  /\ month >= 12
  /\ month' = 0
  /\ UNCHANGED server
  /\ UNCHANGED <<call, ret, pc, completed, upfrontCosts, monthlyRepayment, year,
                 currentPropertyValue, currentLoanBalance, yearlyInterestPaid,
                 cumulativeOwnershipCost, cumulativeRentPaid, investmentBalance,
                 currentWeeklyRent, yearlyBreakdown, breakEvenYear, marginalTaxRate>>

\* The month loop ends after its twelfth iteration.
MonthLoopExit ==
  /\ pc = "month"
  /\ month >= 12
  /\ pc' = "yearEnd"
  /\ UNCHANGED <<call, ret, locals>>
  /\ UNCHANGED <<completed, server>>

\* The rest of the year loop's body, from equity to the push of the record.
YearEnd ==
  /\ pc = "yearEnd"
  /\ LET equity == Sub(currentPropertyValue, currentLoanBalance)
         maintenance == Times(currentPropertyValue, maintenanceRate)
         yearlyOwnershipCost == councilRates + waterRates + insurance + maintenance
         yearlyRentPaid == RentForYear(currentWeeklyRent)
         yearlySavings == Sub(Add(annualRepayment, yearlyOwnershipCost), yearlyRentPaid)
         newInvestment == InvestmentUpdate(investmentBalance, yearlySavings)
         newCumulativeCost ==
           Add(cumulativeOwnershipCost, Add(yearlyOwnershipCost, annualRepayment))
         netPositionBuying == equity
         netPositionRenting == newInvestment
     IN  /\ cumulativeOwnershipCost' = newCumulativeCost
         /\ cumulativeRentPaid' = cumulativeRentPaid + yearlyRentPaid
         /\ currentWeeklyRent' = Grow(currentWeeklyRent, rentalYieldGrowthRate)
         /\ investmentBalance' = newInvestment
         /\ yearlyBreakdown' = Append(yearlyBreakdown,
              [year |-> year,
               propertyValue |-> currentPropertyValue,
               loanBalance |-> currentLoanBalance,
               equity |-> equity,
               yearlyOwnershipCost |-> yearlyOwnershipCost,
               cumulativeOwnershipCost |-> newCumulativeCost,
               yearlyRentPaid |-> yearlyRentPaid,
               cumulativeRentPaid |-> cumulativeRentPaid + yearlyRentPaid,
               investmentBalance |-> newInvestment,
               netPositionBuying |-> netPositionBuying,
               netPositionRenting |-> netPositionRenting,
               advantage |-> Advantage(netPositionBuying, netPositionRenting),
               advantageAmount |->
                 IF IsNaN(Sub(netPositionBuying, netPositionRenting)) THEN NaN
                 ELSE Abs(netPositionBuying - netPositionRenting)])
  /\ year' = year + 1
  /\ pc' = "year"
  /\ UNCHANGED <<call, ret, upfrontCosts, monthlyRepayment, month, currentPropertyValue,
                 currentLoanBalance, yearlyInterestPaid, breakEvenYear>>
  /\ UNCHANGED <<completed, marginalTaxRate, server>>

\* The year loop ends; the break-even scan runs.
BreakEvenScan ==
  /\ pc = "year"
  /\ year > yearsToProject
  /\ breakEvenYear' = FirstBuyingYear(yearlyBreakdown)
  /\ pc' = "summary"
  /\ UNCHANGED <<call, ret, upfrontCosts, monthlyRepayment, year, month,
                 currentPropertyValue, currentLoanBalance, yearlyInterestPaid,
                 cumulativeOwnershipCost, cumulativeRentPaid, investmentBalance,
                 currentWeeklyRent, yearlyBreakdown>>
  /\ UNCHANGED <<completed, marginalTaxRate, server>>

\* year10 = yearlyBreakdown[9], year20 = yearlyBreakdown[19], and the returned object,
\* whose summary reads year10.advantage and then year20.advantage.
Summary ==
  /\ pc = "summary"
  /\ IF Len(yearlyBreakdown) < 20
     THEN ret' = Thrown(TypeError)
     ELSE ret' = Returned(
            [upfrontCosts |-> upfrontCosts,
             loanDetails |->
               [loanAmount |-> loanAmount,
                lvr |-> Rat(loanAmount, inputs.propertyPrice),
                monthlyRepayment |-> monthlyRepayment,
                totalInterestPaid |->
                  Sub(IF IsNaN(monthlyRepayment) THEN NaN
                      ELSE monthlyRepayment * inputs.loanTermYears * 12, loanAmount)],
             yearlyBreakdown |-> yearlyBreakdown,
             summary |->
               [breakEvenYear |-> breakEvenYear,
                advantage10Year |-> yearlyBreakdown[10].advantage,
                advantage10YearAmount |-> yearlyBreakdown[10].advantageAmount,
                advantage20Year |-> yearlyBreakdown[20].advantage,
                advantage20YearAmount |-> yearlyBreakdown[20].advantageAmount]])
  /\ pc' = "done"
  /\ UNCHANGED <<call, locals>>
  /\ UNCHANGED <<completed, server>>

----------------------------------------------------------------------------
(* The calls made *)

\* Bounds of the model.
MaxYears == 21

MaxSeriesLen == 61

\* Incomes at, just above and between the tax thresholds, and one below them all.
Incomes ==
  UNION {{t - 1, t, t + 1} : t \in {0, 18200, 45000, 135000, 190000}}
    \cup {-5000, 30000, 100000, 150000, 200000, 1000000}

TaxCalls == {[fn |-> "calculateMarginalTaxRate", income |-> i] : i \in Incomes}

\* Prices around every bracket threshold and the first-home ceiling.
Prices ==
  UNION {{t - 1, t, t + 1, t + 33, t + 100} : t \in {5000, 75000, 500000, 540000, 1000000}}
    \cup {0, 1, 600000, 750000, 1200000}

StampDutyCalls ==
  {[fn |-> "calculateStampDuty", propertyPrice |-> p, isFirstHome |-> f] :
     p \in Prices, f \in BOOLEAN}

\* <<loanAmount, propertyPrice>>: LVR of 60%, 80%, just above 80%, 90%, 95%, 96%, and
\* prices at and above the scheme's cap.
LoanAndPrice ==
  {<<360000, 600000>>, <<480000, 600000>>, <<480001, 600000>>, <<540000, 600000>>,
   <<570000, 600000>>, <<576000, 600000>>, <<409500, 455000>>, <<950000, 1000000>>,
   <<950950, 1001000>>, <<800000, 1000000>>, <<0, 500000>>}

LMICalls ==
  {[fn |-> "calculateLMI", loanAmount |-> lp[1], propertyPrice |-> lp[2],
    isFirstHome |-> f, use5PercentScheme |-> u] :
     lp \in LoanAndPrice, f \in BOOLEAN, u \in BOOLEAN}

\* <<loanAmount, annualRate, years>>: loans whose repayment is a whole number.
Loans ==
  {<<4095, Rat(12, 1), 1>>, <<409500, Rat(12, 1), 1>>, <<1054690, Rat(6, 1), 1>>,
   <<16777215, Rat(12, 1), 2>>, <<0, Rat(12, 1), 1>>,
   <<480000, Rat(0, 1), 30>>, <<4095, Rat(0, 1), 1>>, <<0, Rat(0, 1), 1>>}

RepaymentCalls ==
  {[fn |-> "calculateMonthlyRepayment", loanAmount |-> l[1], annualRate |-> l[2],
    years |-> l[3]] : l \in Loans}

\* A series of len values v0, v0 + step, ... with the value at position pos (if any)
\* replaced by bad.
Series(len, v0, step, pos, bad) ==
  [i \in 1..len |-> IF i = pos THEN bad ELSE v0 + step * (i - 1)]

SeriesSet ==
  {Series(len, 100, step, pos, bad) :
     len \in 0..MaxSeriesLen, step \in {0, 3}, pos \in {0, 1, 4, 20}, bad \in {0, -50}}

MaxGeometricLen == 24

\* A series of len values v0, v0 * g, v0 * g^2, ...: a constant quarterly rate g - 1.
GeometricSeries(len, v0, g) == [i \in 1..len |-> v0 * IPow(g, i - 1)]

GeometricSet ==
  {GeometricSeries(len, 100, 2) : len \in 18..MaxGeometricLen}
    \cup {GeometricSeries(20, 1, 3)}

GrowthCalls ==
  {[fn |-> "calculateGrowthScenarios", data |-> d] : d \in SeriesSet \cup GeometricSet}

\* What a fetch of a series gives: a failure, or a series whose quarterly factor is a
\* whole number (constant, doubling, tripling), some of them too short.
Fetched ==
  {[ok |-> FALSE, data |-> <<>>]}
    \cup {[ok |-> TRUE, data |-> d] :
            d \in GeometricSet \cup {GeometricSeries(len, 100, 1) : len \in {19, 20, 21}}}

FetchCalls ==
  {[fn |-> "fetchBrisbaneGrowthRates", housesData |-> h, unitsData |-> u] :
     h \in Fetched, u \in Fetched}

Overrides(council, water, ins, maint, growth, rentGrowth) ==
  [councilRates |-> council, waterRates |-> water, insurance |-> ins,
   maintenanceRate |-> maint, propertyGrowthRate |-> growth,
   rentalYieldGrowthRate |-> rentGrowth]

NoOverrides == Overrides(<<>>, <<>>, <<>>, <<>>, <<>>, <<>>)

Inputs(price, deposit, firstHome, scheme, income, rate, term, rent, over) ==
  [propertyPrice |-> price, deposit |-> deposit, isFirstHome |-> firstHome,
   use5PercentScheme |-> scheme, annualIncome |-> income, loanInterestRate |-> rate,
   loanTermYears |-> term, weeklyRent |-> rent,
   councilRates |-> over.councilRates, waterRates |-> over.waterRates,
   insurance |-> over.insurance, maintenanceRate |-> over.maintenanceRate,
   propertyGrowthRate |-> over.propertyGrowthRate,
   rentalYieldGrowthRate |-> over.rentalYieldGrowthRate]

\* <<propertyPrice, deposit, loanInterestRate, loanTermYears>> with 0 < deposit <= price,
\* loanTermYears >= 1, loanInterestRate >= 0, and a loan whose amortization is exact.
Purchases ==
  {<<455000, 45500, Rat(12, 1), 1>>,
   <<600000, 190500, Rat(12, 1), 1>>,
   <<600000, 595905, Rat(12, 1), 1>>,
   <<1500000, 445310, Rat(6, 1), 1>>,
   <<500000, 500000, Rat(12, 1), 1>>,
   <<600000, 120000, Rat(0, 1), 30>>,
   <<600000, 595905, Rat(0, 1), 1>>}

\* A two-year loan, whose size allows only a short horizon.
LongPurchases == {<<25000000, 8222785, Rat(12, 1), 2>>}

\* <<propertyPrice, deposit, loanInterestRate, loanTermYears>> outside the declared
\* ranges: no deposit.
InvalidPurchases == {<<409500, 0, Rat(12, 1), 1>>}

Horizons == {<<>>, <<9>>, <<15>>, <<20>>, <<MaxYears>>}

ShortHorizons == {<<2>>, <<3>>}

\* No costs, no rent, and the property growing at the alternative investment's return.
TieOverrides ==
  Overrides(<<0>>, <<0>>, <<0>>, <<Rat(0, 1)>>,
            <<INVESTMENT_ASSUMPTIONS.alternativeInvestmentReturn>>, <<Rat(0, 1)>>)

\* The greatest number of calculations the page makes one after the other.
MaxCalls == 3

\* The calculations the page makes again: one purchase, with two incomes and two rents
\* (the page projects 30 years; 20 is the shortest horizon that returns).
RepeatCalls ==
  {[fn |-> "calculateRentVsBuy",
    inputs |-> Inputs(600000, 190500, FALSE, <<>>, income, Rat(12, 1), 1, rent,
                      NoOverrides),
    yearsToProject |-> h] :
     income \in {100000, 200000}, rent \in {500, 2000}, h \in {<<20>>, <<30>>}}

\* A rent that doubles every year, which stays a whole number of dollars.
DoublingRent == Overrides(<<>>, <<>>, <<>>, <<>>, <<>>, <<Rat(1, 1)>>)

\* A property value that doubles every year, which stays a whole number of dollars.
DoublingValue == Overrides(<<>>, <<>>, <<>>, <<>>, <<Rat(1, 1)>>, <<>>)

RentVsBuyCalls ==
  {[fn |-> "calculateRentVsBuy",
    inputs |-> Inputs(pu[1], pu[2], f, u, 100000, pu[3], pu[4], rent,
                      Overrides(<<>>, <<>>, <<>>, <<>>, g, <<>>)),
    yearsToProject |-> h] :
     pu \in Purchases, f \in BOOLEAN, u \in {<<>>, <<TRUE>>}, rent \in {500, 800, 2000},
     g \in {<<>>, <<Rat(10, 100)>>}, h \in Horizons}
  \cup
  {[fn |-> "calculateRentVsBuy",
    inputs |-> Inputs(pu[1], pu[2], FALSE, <<>>, 100000, pu[3], pu[4], 500, NoOverrides),
    yearsToProject |-> h] : pu \in LongPurchases, h \in ShortHorizons}
  \cup
  {[fn |-> "calculateRentVsBuy",
    inputs |-> Inputs(500000, 500000, FALSE, <<>>, 100000, Rat(12, 1), 1, 0, TieOverrides),
    yearsToProject |-> h] : h \in {<<20>>}}
  \cup
  {[fn |-> "calculateRentVsBuy",
    inputs |-> Inputs(600000, 190500, FALSE, <<>>, 100000, Rat(12, 1), 1, rent,
                      DoublingRent),
    yearsToProject |-> h] : rent \in {1, 3}, h \in {<<20>>, <<MaxYears>>}}
  \cup
  {[fn |-> "calculateRentVsBuy",
    inputs |-> Inputs(100, 100, FALSE, <<>>, 100000, Rat(12, 1), 1, 500, DoublingValue),
    yearsToProject |-> h] : h \in {<<20>>, <<MaxYears>>}}
  \cup
  {[fn |-> "calculateRentVsBuy",
    inputs |-> Inputs(8190, 4095, FALSE, <<>>, 100000, Rat(12, 1), 1, 500, DoublingValue),
    yearsToProject |-> h] : h \in {<<9>>}}
  \cup
  {[fn |-> "calculateRentVsBuy",
    inputs |-> Inputs(pu[1], pu[2], f, <<>>, 100000, pu[3], pu[4], 500, NoOverrides),
    yearsToProject |-> h] : pu \in InvalidPurchases, f \in BOOLEAN, h \in {<<>>, <<20>>}}

----------------------------------------------------------------------------
(* GET /api/abs/growth-rates (+server.ts).  Time is counted in days; the    *)
(* handler is one step up to the await of the fetch and one step after it.  *)

\* CACHE_DURATION_MS, in days
CACHE_DURATION_MS == 90

\* fs.existsSync(CACHE_FILE) is false
NoFile == [state |-> "absent"]

\* a file that JSON.parse rejects
Unreadable == [state |-> "unreadable"]

\* CachedData, as the text of the file
CachedData(data, cachedAt) == [state |-> "written", data |-> data, cachedAt |-> cachedAt]

null == [json |-> "null"]

\* Math.pow of a negative ratio with a fractional exponent
NotANumber == [n |-> 0, d |-> 0]

\* JSON.stringify of a number, read back: a number that is not finite becomes null.
JsonNumber(x) == IF "d" \in DOMAIN x /\ x.d = 0 THEN null ELSE x

JsonScenarios(s) ==
  [fiveYear |-> JsonNumber(s.fiveYear), tenYear |-> JsonNumber(s.tenYear),
   fifteenYear |-> JsonNumber(s.fifteenYear)]

\* JSON.parse(JSON.stringify(data)) of an ABSGrowthRate
Json(data) ==
  [data EXCEPT !.houses = JsonScenarios(@),
               !.units = JsonScenarios(@),
               !.allResidential = JsonScenarios(@),
               !.houseGrowthRate = JsonNumber(@),
               !.unitGrowthRate = JsonNumber(@),
               !.allResidentialGrowthRate = JsonNumber(@)]

\* json(body, {status}): the response a client reads
json(body, status) ==
  [status |-> status,
   body |-> IF "data" \in DOMAIN body THEN [body EXCEPT !.data = Json(@)] ELSE body]

readCacheInclusive ==
  IF cacheFile.state # "written" THEN null
  ELSE IF now - cacheFile.cachedAt <= CACHE_DURATION_MS THEN cacheFile.data
  ELSE null

\* The data of the cache file if it can be read and is less than 90 days old.
readCache ==
  IF cacheFile.state # "written" THEN null
  ELSE IF now - cacheFile.cachedAt < CACHE_DURATION_MS THEN cacheFile.data
  ELSE null

\* The file after writeCache(data)
writeCache(data) == CachedData(Json(data), now)

NoRequest == [state |-> "none"]

StaleMessage == "Failed to fetch fresh data, using cached version"

\* The series a fetch of this route can give.
RouteSeries ==
  {[ok |-> FALSE, data |-> <<>>],
   [ok |-> TRUE, data |-> GeometricSeries(20, 100, 2)],
   [ok |-> TRUE, data |-> GeometricSeries(20, 1, 3)]}

\* The growth rates of house prices that end below zero after starting above it: each
\* scenario of houses is NaN, and so is each blend.
NegativeRatio(data) ==
  LET nan == [fiveYear |-> NotANumber, tenYear |-> NotANumber, fifteenYear |-> NotANumber]
  IN  [data EXCEPT !.houses = nan, !.allResidential = nan,
                   !.houseGrowthRate = NotANumber,
                   !.allResidentialGrowthRate = NotANumber]

\* What await fetchBrisbaneGrowthRates() gives: the data, or an error thrown.
FetchOutcomes ==
  LET computed == {fetchBrisbaneGrowthRates(h, u) : h, u \in RouteSeries}
  IN  computed \cup {Returned(NegativeRatio(o.value)) :
                       o \in {c \in computed : c.state = "returned"
                                /\ c.value.houses # c.value.units}}

\* The days at which the clock is read.
Days == {0, 1, 90, 91, 181}

\* The greatest number of requests answered.
MaxRequests == 2

GETCalls == {[fn |-> "GET"]}

\* The handler down to the await: the cache answers, or the fetch starts.
GET(forceRefresh) ==
  /\ call.fn = "GET"
  /\ inflight = NoRequest
  /\ Len(served) < MaxRequests
  /\ IF ~forceRefresh /\ readCache # null
     THEN /\ served' = Append(served,
                 [forceRefresh |-> forceRefresh, at |-> now, cacheBefore |-> cacheFile,
                  fetched |-> FALSE, outcome |-> NoRequest,
                  doneAt |-> now, cacheAfter |-> cacheFile,
                  response |-> json([success |-> TRUE, data |-> readCache,
                                     cached |-> TRUE], 200)])
          /\ inflight' = inflight
     ELSE /\ inflight' = [state |-> "fetching", forceRefresh |-> forceRefresh,
                          at |-> now, cacheBefore |-> cacheFile]
          /\ served' = served
  /\ UNCHANGED <<call, ret, pc, locals, completed, cacheFile, now>>

\* The handler from the await on: the data is cached and returned, or the catch
\* branch answers.
GETAfterFetch ==
  /\ call.fn = "GET"
  /\ inflight.state = "fetching"
  /\ \E outcome \in FetchOutcomes :
       LET entry(file, response) ==
             [forceRefresh |-> inflight.forceRefresh, at |-> inflight.at,
              cacheBefore |-> inflight.cacheBefore, fetched |-> TRUE,
              outcome |-> outcome, doneAt |-> now, cacheAfter |-> file,
              response |-> response]
       IN  IF outcome.state = "returned"
           THEN /\ cacheFile' = writeCache(outcome.value)
                /\ served' = Append(served,
                      entry(writeCache(outcome.value),
                            json([success |-> TRUE, data |-> outcome.value,
                                  cached |-> FALSE], 200)))
           ELSE /\ cacheFile' = cacheFile
                /\ served' = Append(served,
                      entry(cacheFile,
                            IF readCache # null
                            THEN json([success |-> TRUE, data |-> readCache,
                                       cached |-> TRUE, stale |-> TRUE,
                                       error |-> StaleMessage], 200)
                            ELSE json([success |-> FALSE, error |-> outcome.error], 500)))
  /\ inflight' = NoRequest
  /\ UNCHANGED <<call, ret, pc, locals, completed, now>>

\* Time passes.
Tick ==
  /\ call.fn = "GET"
  /\ \E t \in Days : t > now /\ now' = t
  /\ UNCHANGED <<call, ret, pc, locals, completed, cacheFile, inflight, served>>

Init ==
  /\ call \in StampDutyCalls \cup LMICalls \cup RepaymentCalls \cup GrowthCalls
                \cup RentVsBuyCalls \cup RepeatCalls \cup TaxCalls \cup FetchCalls
                \cup GETCalls
  /\ ret = Pending
  /\ pc = IF call.fn = "calculateRentVsBuy" THEN "start" ELSE "idle"
  /\ upfrontCosts = <<>>
  /\ monthlyRepayment = 0
  /\ year = 0
  /\ month = 0
  /\ currentPropertyValue = 0
  /\ currentLoanBalance = 0
  /\ yearlyInterestPaid = 0
  /\ cumulativeOwnershipCost = 0
  /\ cumulativeRentPaid = 0
  /\ investmentBalance = 0
  /\ currentWeeklyRent = 0
  /\ yearlyBreakdown = <<>>
  /\ breakEvenYear = NoYear
  /\ marginalTaxRate = Rat(0, 1)
  /\ completed = <<>>
  /\ cacheFile \in IF call.fn = "GET" THEN {NoFile, Unreadable} ELSE {NoFile}
  /\ now = 0
  /\ inflight = NoRequest
  /\ served = <<>>

CallStampDuty ==
  /\ call.fn = "calculateStampDuty"
  /\ ret = Pending
  /\ ret' = Returned(calculateStampDuty(call.propertyPrice, call.isFirstHome))
  /\ UNCHANGED <<call, pc, locals>>
  /\ UNCHANGED <<completed, server>>

CallLMI ==
  /\ call.fn = "calculateLMI"
  /\ ret = Pending
  /\ ret' = Returned(calculateLMI(call.loanAmount, call.propertyPrice, call.isFirstHome,
                                  call.use5PercentScheme))
  /\ UNCHANGED <<call, pc, locals>>
  /\ UNCHANGED <<completed, server>>

CallMonthlyRepayment ==
  /\ call.fn = "calculateMonthlyRepayment"
  /\ ret = Pending
  /\ ret' = Returned(calculateMonthlyRepayment(call.loanAmount, call.annualRate, call.years))
  /\ UNCHANGED <<call, pc, locals>>
  /\ UNCHANGED <<completed, server>>

CallMarginalTaxRate ==
  /\ call.fn = "calculateMarginalTaxRate"
  /\ ret = Pending
  /\ ret' = Returned(calculateMarginalTaxRate(call.income))
  /\ UNCHANGED <<call, pc, locals>>
  /\ UNCHANGED <<completed, server>>

CallGrowthScenarios ==
  /\ call.fn = "calculateGrowthScenarios"
  /\ ret = Pending
  /\ ret' = calculateGrowthScenarios(call.data)
  /\ UNCHANGED <<call, pc, locals>>
  /\ UNCHANGED <<completed, server>>

CallFetchGrowthRates ==
  /\ call.fn = "fetchBrisbaneGrowthRates"
  /\ ret = Pending
  /\ ret' = fetchBrisbaneGrowthRates(call.housesData, call.unitsData)
  /\ UNCHANGED <<call, pc, locals>>
  /\ UNCHANGED <<completed, server>>

\* The page calculates again: the outcome so far is kept by the caller, and a new
\* invocation starts.
handleCalculate ==
  /\ pc = "done"
  /\ call \in RepeatCalls
  /\ Len(completed) < MaxCalls - 1
  /\ \E c \in RepeatCalls : call' = c
  /\ completed' = Append(completed, [call |-> call, ret |-> ret])
  /\ ret' = Pending
  /\ pc' = "start"
  /\ UNCHANGED <<locals, server>>

Next ==
  \/ CallStampDuty
  \/ CallLMI
  \/ CallMonthlyRepayment
  \/ CallMarginalTaxRate
  \/ CallGrowthScenarios
  \/ CallFetchGrowthRates
  \/ Start
  \/ YearBegin
  \/ MonthStep
  \/ MonthLoopExit
  \/ YearEnd
  \/ BreakEvenScan
  \/ Summary
  \/ handleCalculate
  \/ \E forceRefresh \in BOOLEAN : GET(forceRefresh)
  \/ GETAfterFetch
  \/ Tick

Spec == Init /\ [][Next]_vars

\* A step of an invocation of calculateRentVsBuy.
Run ==
  \/ Start
  \/ YearBegin
  \/ MonthStep
  \/ MonthLoopExit
  \/ YearEnd
  \/ BreakEvenScan
  \/ Summary

\* One invocation of calculateRentVsBuy from each kind of call: a loan paid off in its
\* first year, one paid off in its second, and a repayment that is not a number.
LiveCalls ==
  {[fn |-> "calculateRentVsBuy",
    inputs |-> Inputs(pu[1], pu[2], FALSE, <<>>, 100000, pu[3], pu[4], 500, NoOverrides),
    yearsToProject |-> h] :
     pu \in {<<600000, 190500, Rat(12, 1), 1>>, <<600000, 120000, Rat(0, 1), 30>>},
     h \in {<<>>, <<9>>, <<20>>, <<MaxYears>>}}
  \cup
  {[fn |-> "calculateRentVsBuy",
    inputs |-> Inputs(pu[1], pu[2], FALSE, <<>>, 100000, pu[3], pu[4], 500, NoOverrides),
    yearsToProject |-> h] : pu \in LongPurchases, h \in ShortHorizons}

LiveInit == Init /\ call \in LiveCalls

\* The loops of calculateRentVsBuy and what follows them.
Loops ==
  \/ YearBegin
  \/ MonthStep
  \/ MonthLoopExit
  \/ YearEnd
  \/ BreakEvenScan
  \/ Summary

\* calculateRentVsBuy is synchronous: an invocation that can take a step takes it.
FairSpec == LiveInit /\ [][Run]_vars /\ WF_vars(Loops)

----------------------------------------------------------------------------
(* Properties *)

IsCall(fn) == call.fn = fn /\ ret.state # "pending"

\* The index of the bracket with the greatest threshold strictly below v (0 if none).
BracketBelow(v) ==
  LET below == {i \in 1..Len(QLD_STAMP_DUTY_BRACKETS) :
                  QLD_STAMP_DUTY_BRACKETS[i].threshold < v}
  IN  IF below = {} THEN 0 ELSE CHOOSE i \in below : \A j \in below : j <= i

\* base + (v - threshold) * rate of that bracket, in ten-thousandths of a dollar.
ProgressiveDuty(v) ==
  IF BracketBelow(v) = 0 THEN 0
  ELSE LET b == QLD_STAMP_DUTY_BRACKETS[BracketBelow(v)]
       IN  b.base * 10000 + (v - b.threshold) * ((b.rate.n * 10000) \div b.rate.d)

ConcessionApplies == call.isFirstHome /\ call.propertyPrice <= 500000

\* C1 as stated: without the first-home concession calculateStampDuty returns exactly
\* base + (v - threshold) * rate of the bracket with the greatest threshold below v.
C1_StampDutyExact ==
  (IsCall("calculateStampDuty") /\ ~ConcessionApplies)
    => ret.value * 10000 = ProgressiveDuty(call.propertyPrice)

\* C1 amended: without the first-home concession calculateStampDuty returns
\* base + (v - threshold) * rate of the bracket with the greatest threshold strictly
\* below v, rounded to the nearest whole dollar (0 at or below the lowest threshold).
C1_StampDutyRounded ==
  (IsCall("calculateStampDuty") /\ ~ConcessionApplies)
    => ret.value = (ProgressiveDuty(call.propertyPrice) + 5000) \div 10000

\* 750,000, not a first home, gives 26,775.
C1_Witness ==
  /\ IsCall("calculateStampDuty")
  /\ call.propertyPrice = 750000 /\ ~call.isFirstHome
  /\ ret.value = 26775

\* C2: for every price <= 500,000 with isFirstHome = true, calculateStampDuty returns 0.
C2_FirstHomeZero ==
  (IsCall("calculateStampDuty") /\ call.isFirstHome /\ call.propertyPrice <= 500000)
    => ret.value = 0

\* A first home at exactly 500,000, where the brackets alone would give 15,925.
C2_Witness ==
  /\ IsCall("calculateStampDuty")
  /\ call.isFirstHome /\ call.propertyPrice = 500000
  /\ ret.value = 0
  /\ ProgressiveDuty(500000) = 15925 * 10000

\* C3: calculateLMI returns 0 whenever loanAmount / propertyPrice <= 0.80, and whenever
\* the scheme flag is on, the buyer is a first-home buyer, the price is within the cap
\* and the deposit fraction is at least 5%, whatever the LVR.
C3_LMIZero ==
  (/\ IsCall("calculateLMI")
   /\ \/ 5 * call.loanAmount <= 4 * call.propertyPrice
      \/ /\ call.use5PercentScheme /\ call.isFirstHome
         /\ call.propertyPrice <= 1000000
         /\ 20 * (call.propertyPrice - call.loanAmount) >= call.propertyPrice)
    => ret.value = 0

\* A loan of 480,000 on 600,000 (exactly 80%) outside the scheme, and no premium.
C3_Witness ==
  /\ IsCall("calculateLMI")
  /\ call.loanAmount = 480000 /\ call.propertyPrice = 600000
  /\ ~call.use5PercentScheme /\ ~call.isFirstHome
  /\ ret.value = 0

\* C4: with annualRate = 0, calculateMonthlyRepayment(P, 0, years) returns
\* P / (years * 12), not NaN.
C4_ZeroRateRepayment ==
  (IsCall("calculateMonthlyRepayment") /\ call.annualRate.n = 0)
    => /\ ~IsNaN(ret.value)
       /\ ret.value = Dollars(Rat(call.loanAmount, call.years * 12))

Returns == call.fn = "calculateRentVsBuy" /\ ret.state = "returned"

\* C5: in the returned timeline the loan balance never increases: year 1 is at most
\* the loan amount, every later year at most the year before.
C5_BalanceNonIncreasing ==
  Returns =>
    LET tl == ret.value.yearlyBreakdown
    IN  \A i \in 1..Len(tl) :
          Le(tl[i].loanBalance, IF i = 1 THEN loanAmount ELSE tl[i - 1].loanBalance)

\* C6: the loan balance recorded for year = loanTermYears and every later year is 0.
C6_PaidOffByTerm ==
  Returns =>
    LET tl == ret.value.yearlyBreakdown
    IN  \A i \in 1..Len(tl) :
          tl[i].year >= inputs.loanTermYears => tl[i].loanBalance = 0

\* The years of a timeline whose equity strictly exceeds the investment balance.
EquityAhead(tl) == {tl[i].year : i \in {j \in 1..Len(tl) : Gt(tl[j].equity, tl[j].investmentBalance)}}

C8_AdvantageStrict ==
  \A i \in 1..Len(yearlyBreakdown) :
    LET r == yearlyBreakdown[i]
    IN  /\ (r.advantage = "buying") <=> Gt(r.netPositionBuying, r.netPositionRenting)
        /\ r.advantage \in {"buying", "renting"}
        /\ (r.netPositionBuying = r.netPositionRenting) => r.advantage = "renting"

\* A record with equal net positions, whose advantage is renting.
C8_Witness ==
  /\ \E i \in 1..Len(yearlyBreakdown) :
       /\ ~IsNaN(yearlyBreakdown[i].netPositionBuying)
       /\ yearlyBreakdown[i].netPositionBuying = yearlyBreakdown[i].netPositionRenting
       /\ yearlyBreakdown[i].advantage = "renting"

ConfigurationError == "ConfigurationError"

\* C9: a call with yearsToProject < 20 fails fast with a ConfigurationError: it throws
\* that error and simulates no year.
C9_HorizonValidated ==
  (call.fn = "calculateRentVsBuy" /\ yearsToProject < 20 /\ pc = "done")
    => /\ ret = Thrown(ConfigurationError)
       /\ yearlyBreakdown = <<>>

\* The value calculateGrowthRate is to give for a window of the given years.
WindowCagr(data, years) ==
  LET quartersBack == Min(years * 4, Len(data) - 1)
  IN  Cagr(data[Len(data)], data[Len(data) - quartersBack], quartersBack)

\* C10: calculateGrowthScenarios fails with InsufficientData for every series of fewer
\* than 20 points and computes all three windows for every series of 20 or more
\* points with positive values.
C10_GrowthScenarios ==
  IsCall("calculateGrowthScenarios") =>
    /\ Len(call.data) < 20 => ret = Thrown(InsufficientData)
    /\ (Len(call.data) >= 20 /\ \A i \in 1..Len(call.data) : call.data[i] > 0)
         => /\ ret.state = "returned"
            /\ ret.value = [fiveYear |-> WindowCagr(call.data, 5),
                            tenYear |-> WindowCagr(call.data, 10),
                            fifteenYear |-> WindowCagr(call.data, 15)]

\* A series of exactly 20 positive points gives the three scenarios.
C10_Witness ==
  /\ IsCall("calculateGrowthScenarios")
  /\ Len(call.data) = 20
  /\ \A i \in 1..20 : call.data[i] > 0
  /\ ret.state = "returned"

\* The base values of the three windows of a series.
WindowBases(data) ==
  {data[Len(data) - Min(y * 4, Len(data) - 1)] : y \in {5, 10, 15}}

\* C11: the CAGR computation fails whenever the base value is <= 0, for a zero base
\* and a negative base alike, and never returns a number in that case.
C11_NonPositiveBaseFails ==
  (/\ IsCall("calculateGrowthScenarios")
   /\ Len(call.data) >= 20
   /\ \E b \in WindowBases(call.data) : b <= 0)
    => ret = Thrown(InvalidData)

InvalidInput == "InvalidInput"

\* deposit <= 0, deposit > price, loanTerm < 1 or interestRate < 0
ViolatesInputInvariants(in) ==
  \/ in.deposit <= 0
  \/ in.deposit > in.propertyPrice
  \/ in.loanTermYears < 1
  \/ in.loanInterestRate.n < 0

\* C12: inputs that violate the ScenarioInputs invariants are rejected by
\* calculateRentVsBuy with an InvalidInput error before any simulation step runs.
C12_InvalidInputRejected ==
  (call.fn = "calculateRentVsBuy" /\ ViolatesInputInvariants(inputs) /\ pc # "start")
    => /\ pc = "done"
       /\ ret = Thrown(InvalidInput)
       /\ yearlyBreakdown = <<>>

\* investmentBalance * (1 + altReturn) + savings, the savings taken with their sign.
SignedUpdate(balance, savings) ==
  Add(Grow(balance, INVESTMENT_ASSUMPTIONS.alternativeInvestmentReturn), savings)

\* C13: in every year the investment balance is updated as
\* investmentBalance * (1 + altReturn) + savings, with
\* savings = annualRepayment + yearlyOwnershipCost - yearlyRentPaid taken with its sign.
C13_SignedSavings ==
  pc # "start" =>
    \A i \in 1..Len(yearlyBreakdown) :
      LET r == yearlyBreakdown[i]
          before ==
            IF i = 1 THEN inputs.deposit ELSE yearlyBreakdown[i - 1].investmentBalance
          savings == Sub(Add(annualRepayment, r.yearlyOwnershipCost), r.yearlyRentPaid)
      IN  r.investmentBalance = SignedUpdate(before, savings)

\* The years of a timeline are 1, 2, ..., its length.
YearsInOrder(tl) == \A i \in 1..Len(tl) : tl[i].year = i

\* A step leaves the timeline alone or appends one record to it; the first step of an
\* invocation makes its timeline, an empty one.
AppendOnly ==
  \/ pc = "start" /\ yearlyBreakdown' = <<>>
  \/ yearlyBreakdown' = yearlyBreakdown
  \/ /\ Len(yearlyBreakdown') = Len(yearlyBreakdown) + 1
     /\ SubSeq(yearlyBreakdown', 1, Len(yearlyBreakdown)) = yearlyBreakdown

\* C14: the timeline returned by calculateRentVsBuy(inputs, H) holds exactly H records
\* whose years are 1, 2, ..., H in increasing order; a record is only ever appended, and
\* no record already appended is changed by a later iteration or by the summary.
C14_TimelineAppendOnly ==
  /\ [](YearsInOrder(yearlyBreakdown))
  /\ [](Returns => /\ ret.value.yearlyBreakdown = yearlyBreakdown
                   /\ Len(yearlyBreakdown) = OrElse(call.yearsToProject, 30))
  /\ [][AppendOnly]_vars

\* A returned timeline of the longest horizon drawn, beyond the years the summary reads.
C14_Witness ==
  /\ Returns
  /\ call.yearsToProject = <<MaxYears>>
  /\ Len(ret.value.yearlyBreakdown) = MaxYears
  /\ ret.value.yearlyBreakdown[MaxYears].year = MaxYears

\* The scenario of a window of 5, 10 or 15 years.
Scenario(scenarios, y) ==
  IF y = 5 THEN scenarios.fiveYear
  ELSE IF y = 10 THEN scenarios.tenYear
  ELSE scenarios.fifteenYear

\* The exponent that annualises the ratio latest / base of a scenario.
Exponent(c) == Rat(4, c.quarters)

GrowthReturns == call.fn = "calculateGrowthScenarios" /\ ret.state = "returned"

\* C15 as stated: the exponent is 1 / years, years the requested window length, also
\* when the series is shorter than years * 4 + 1 points (read on the windows whose
\* latest and base differ, where the exponent bears on the value).
C15_RequestedExponent ==
  GrowthReturns =>
    \A y \in {5, 10, 15} :
      LET c == Scenario(ret.value, y)
      IN  c.latest # c.base => Exponent(c) = Rat(1, y)

\* C15 amended: for a series of length L the window of y years uses the last value as
\* latest, the value min(4y, L - 1) positions before it as base (always a position of
\* the series), and the exponent 4 / min(4y, L - 1): 1 / y when the series has at least
\* 4y + 1 points, and the reciprocal of the shorter span actually covered otherwise.
C15_CoveredExponent ==
  GrowthReturns =>
    \A y \in {5, 10, 15} :
      LET L == Len(call.data)
          q == Min(4 * y, L - 1)
          c == Scenario(ret.value, y)
      IN  /\ L - q \in 1..L
          /\ c.latest = call.data[L]
          /\ c.base = call.data[L - q]
          /\ Exponent(c) = Rat(4, q)
          /\ (L >= 4 * y + 1) => Exponent(c) = Rat(1, y)
          /\ (L < 4 * y + 1) => Exponent(c) = Rat(4, L - 1)

\* A rising series of 20 points: the five-year window covers 19 quarters only.
C15_Witness ==
  /\ GrowthReturns
  /\ Len(call.data) = 20
  /\ call.data[20] > call.data[1]
  /\ ret.value.fiveYear = [latest |-> call.data[20], base |-> call.data[1], quarters |-> 19]

\* The series compounds at one constant quarterly rate: each value is g times the
\* one before.
Compounds(data, g) == \A i \in 1..(Len(data) - 1) : data[i + 1] = g * data[i]

\* C16: for every series of at least 20 points that compounds at one constant
\* quarterly rate, calculateGrowthScenarios returns the same annualised rate for
\* fiveYear, tenYear and fifteenYear, equal to the annualised constant rate, also where
\* the 10- or 15-year window is truncated.
C16_ConstantRateScenarios ==
  \A g \in 1..MaxFactor :
    (/\ IsCall("calculateGrowthScenarios")
     /\ Len(call.data) >= 20
     /\ call.data[1] > 0
     /\ Compounds(call.data, g))
      => /\ ret.state = "returned"
         /\ \A y \in {5, 10, 15} :
              AnnualFactor(Scenario(ret.value, y)) - 1 = IPow(g, 4) - 1

\* 24 points doubling each quarter: the five-year window is whole and the other two
\* are truncated to 23 quarters, and all three give 2^4 - 1.
C16_Witness ==
  /\ GrowthReturns
  /\ Len(call.data) = 24
  /\ Compounds(call.data, 2)
  /\ ret.value.fiveYear.quarters = 20
  /\ ret.value.tenYear.quarters = 23
  /\ AnnualFactor(ret.value.fiveYear) = 16
  /\ AnnualFactor(ret.value.tenYear) = 16
  /\ AnnualFactor(ret.value.fifteenYear) = 16

\* The brackets whose threshold is strictly below the income.
TaxBracketsBelow(income) ==
  {i \in 1..Len(AU_TAX_BRACKETS) : AU_TAX_BRACKETS[i].threshold < income}

\* C17: calculateMarginalTaxRate(income) returns the rate of the highest bracket whose
\* threshold is strictly below income plus the flat 2% levy; the levy is added in every
\* case, so an income at or below the lowest threshold gives exactly the levy, and an
\* income above 190,000 gives 0.45 + 0.02.
C17_MarginalRatePlusLevy ==
  IsCall("calculateMarginalTaxRate") =>
    LET below == TaxBracketsBelow(call.income)
        top == CHOOSE i \in below : \A j \in below : j <= i
    IN  /\ below # {} => ret.value = RAdd(AU_TAX_BRACKETS[top].rate, Rat(2, 100))
        /\ below = {} => ret.value = Rat(2, 100)
        /\ call.income <= 0 => ret.value = Rat(2, 100)
        /\ call.income > 190000 => ret.value = Rat(47, 100)

\* An income of exactly 45,000 is still in the 16% bracket: 0.16 + 0.02.
C17_Witness ==
  /\ IsCall("calculateMarginalTaxRate")
  /\ call.income = 45000
  /\ ret.value = Rat(18, 100)

FetchReturns == call.fn = "fetchBrisbaneGrowthRates" /\ ret.state = "returned"

\* 10 * all = 6 * houses + 4 * units
SixtyForty(all, houses, units) ==
  RMul(RInt(10), all) = RAdd(RMul(RInt(6), houses), RMul(RInt(4), units))

\* C18: each of the three all-residential scenarios is 0.6 * houses + 0.4 * units of
\* the house and unit scenarios of the same window, whatever the data.
C18_FixedWeightBlend ==
  FetchReturns =>
    LET v == ret.value
    IN  /\ SixtyForty(v.allResidential.fiveYear, v.houses.fiveYear, v.units.fiveYear)
        /\ SixtyForty(v.allResidential.tenYear, v.houses.tenYear, v.units.tenYear)
        /\ SixtyForty(v.allResidential.fifteenYear, v.houses.fifteenYear,
                      v.units.fifteenYear)

\* Houses doubling each quarter (15 a year) and flat units: 0.6 * 15 + 0.4 * 0 = 9.
C18_Witness ==
  /\ FetchReturns
  /\ ret.value.houses.tenYear = RInt(15)
  /\ ret.value.units.tenYear = RInt(0)
  /\ ret.value.allResidential.tenYear = RInt(9)

\* The invocation has ended, by a return or a throw.
Ended == call.fn = "calculateRentVsBuy" /\ pc = "done"

\* C19: calculateRentVsBuy is deterministic and keeps no state across invocations: two
\* calls with equal inputs and horizon have equal outcomes, whatever calls were made in
\* between, and a call does not modify its input record.
C19_Deterministic ==
  /\ [](Ended => \A i \in 1..Len(completed) :
                   completed[i].call = call => completed[i].ret = ret)
  /\ [][pc # "done" => call' = call]_vars

\* A third calculation with the inputs and horizon of the first, after a second one
\* with another rent, returns what the first returned.
C19_Witness ==
  /\ Ended
  /\ Len(completed) = 2
  /\ completed[1].call = call
  /\ completed[2].call.inputs.weeklyRent # inputs.weeklyRent
  /\ completed[2].ret # ret
  /\ ret.state = "returned"
  /\ completed[1].ret = ret

\* The two calls differ in annualIncome only.
OnlyIncomeDiffers(c1, c2) ==
  /\ c1.inputs.annualIncome # c2.inputs.annualIncome
  /\ c1 = [c2 EXCEPT !.inputs.annualIncome = c1.inputs.annualIncome]

\* C20: the marginal tax rate is consumed by no output: two runs of calculateRentVsBuy
\* whose inputs differ only in annualIncome return identical upfront costs, loan
\* details, timeline and summary.
C20_IncomeIgnored ==
  Ended =>
    \A i \in 1..Len(completed) :
      OnlyIncomeDiffers(completed[i].call, call) => completed[i].ret = ret

\* The same purchase calculated for an income of 100,000 (rate 0.32) and then of
\* 200,000 (rate 0.47): the tax rates differ, the results do not.
C20_Witness ==
  /\ Ended
  /\ Len(completed) >= 1
  /\ OnlyIncomeDiffers(completed[1].call, call)
  /\ calculateMarginalTaxRate(completed[1].call.inputs.annualIncome) = Rat(32, 100)
  /\ marginalTaxRate = Rat(47, 100)
  /\ ret.state = "returned"
  /\ completed[1].ret = ret

Running == call.fn = "calculateRentVsBuy" /\ pc \notin {"start", "done"}

\* C21: every call of calculateRentVsBuy with horizon H terminates, after exactly H
\* outer iterations of at most 12 monthly steps each.
C21_Terminates ==
  /\ Running ~> Ended
  /\ [](Running => /\ year \in 1..(OrElse(call.yearsToProject, 30) + 1)
                   /\ Len(yearlyBreakdown) = year - 1
                   /\ month \in 0..12)
  /\ [](Ended => Len(yearlyBreakdown) = OrElse(call.yearsToProject, 30))

\* An invocation at a repayment that is not a number has ended after twelve monthly
\* steps in each of its 20 years.
C21_Witness ==
  /\ Ended
  /\ IsNaN(monthlyRepayment)
  /\ month = 12
  /\ Len(yearlyBreakdown) = 20
  /\ year = 21

\* The sum of yearlyRentPaid over the first n records of a timeline.
RECURSIVE RentSum(_, _)
RentSum(tl, n) == IF n = 0 THEN 0 ELSE RentSum(tl, n - 1) + tl[n].yearlyRentPaid

\* C22: rent is charged before it compounds: yearlyRentPaid of year 1 is
\* weeklyRent * 52, yearlyRentPaid of year y is weeklyRent * (1 + rentGrowth)^(y-1) * 52
\* (read where the growth factor is a whole number, so that the amounts are whole
\* dollars), and cumulativeRentPaid of year y is the sum of yearlyRentPaid over 1..y.
C22_RentBeforeGrowth ==
  (call.fn = "calculateRentVsBuy" /\ pc # "start") =>
    \A y \in 1..Len(yearlyBreakdown) :
      LET r == yearlyBreakdown[y]
      IN  /\ y = 1 => r.yearlyRentPaid = inputs.weeklyRent * 52
          /\ rentalYieldGrowthRate.d = 1 =>
                r.yearlyRentPaid =
                  inputs.weeklyRent * IPow(1 + rentalYieldGrowthRate.n, y - 1) * 52
          /\ r.cumulativeRentPaid = RentSum(yearlyBreakdown, y)

\* A rent of 3 a week that doubles every year: 156 in year 1, 624 in year 3, and
\* 156 + 312 + 624 paid by then.
C22_Witness ==
  /\ Returns
  /\ inputs.weeklyRent = 3
  /\ rentalYieldGrowthRate = Rat(1, 1)
  /\ ret.value.yearlyBreakdown[1].yearlyRentPaid = 156
  /\ ret.value.yearlyBreakdown[3].yearlyRentPaid = 624
  /\ ret.value.yearlyBreakdown[3].cumulativeRentPaid = 1092

\* C23: in the record of year y, propertyValue = price * (1 + growth)^y (the closed
\* form read where the growth factor is a whole number, the yearly step in every
\* run), equity = that grown value minus the loan balance after the year's
\* amortization, and yearlyOwnershipCost = council + water + insurance +
\* grown value * maintenanceRate.
C23_GrownValueRecords ==
  (call.fn = "calculateRentVsBuy" /\ pc # "start") =>
    LET growth == OrElse(inputs.propertyGrowthRate, Rat(5, 100))
        fixed == OrElse(inputs.councilRates, 2000) + OrElse(inputs.waterRates, 1200)
                   + OrElse(inputs.insurance, 1500)
        maint == OrElse(inputs.maintenanceRate, Rat(1, 100))
        n == Len(yearlyBreakdown)
    IN  /\ \A y \in 1..n :
             LET r == yearlyBreakdown[y]
                 before == IF y = 1 THEN inputs.propertyPrice
                           ELSE yearlyBreakdown[y - 1].propertyValue
             IN  /\ r.propertyValue = MulDiv(before, growth.n + growth.d, growth.d)
                 /\ growth.d = 1 =>
                       r.propertyValue = inputs.propertyPrice * IPow(1 + growth.n, y)
                 /\ r.equity = Sub(r.propertyValue, r.loanBalance)
                 /\ r.yearlyOwnershipCost
                       = fixed + MulDiv(r.propertyValue, maint.n, maint.d)
        /\ (pc = "year" /\ n >= 1) =>
             /\ yearlyBreakdown[n].propertyValue = currentPropertyValue
             /\ yearlyBreakdown[n].loanBalance = currentLoanBalance

\* A price of 8,190 doubling every year with a loan of 4,095 paid off in year 1: the
\* record of year 1 holds 16,380, all of it equity, and costs of 4,700 + 163.80.
C23_Witness ==
  /\ call.fn = "calculateRentVsBuy"
  /\ inputs.propertyPrice = 8190
  /\ Len(yearlyBreakdown) >= 2
  /\ yearlyBreakdown[1].propertyValue = 16380
  /\ yearlyBreakdown[1].loanBalance = 0
  /\ yearlyBreakdown[1].equity = 16380
  /\ yearlyBreakdown[1].yearlyOwnershipCost = 4864
  /\ yearlyBreakdown[2].propertyValue = 32760

\* C24: a year that starts with the loan already paid off is charged like any other
\* year: the full 12 * monthlyRepayment is added to cumulativeOwnershipCost and enters
\* the savings differential that moves the investment balance.
C24_RepaymentAfterPayoff ==
  (call.fn = "calculateRentVsBuy" /\ pc # "start") =>
    LET charge == IF IsNaN(monthlyRepayment) THEN NaN ELSE 12 * monthlyRepayment
    IN  \A y \in 1..Len(yearlyBreakdown) :
          LET r == yearlyBreakdown[y]
              costBefore == IF y = 1 THEN upfrontCosts.total
                            ELSE yearlyBreakdown[y - 1].cumulativeOwnershipCost
              investedBefore == IF y = 1 THEN inputs.deposit
                                ELSE yearlyBreakdown[y - 1].investmentBalance
              savings == Sub(Add(charge, r.yearlyOwnershipCost), r.yearlyRentPaid)
          IN  /\ r.cumulativeOwnershipCost
                    = Add(costBefore, Add(r.yearlyOwnershipCost, charge))
              /\ r.investmentBalance = InvestmentUpdate(investedBefore, savings)

\* A loan of 409,500 repaid within year 1 at 409,600 a month: year 3 starts without
\* debt and its cumulative cost still rises by the year's costs plus 4,915,200.
C24_Witness ==
  /\ call.fn = "calculateRentVsBuy"
  /\ monthlyRepayment = 409600
  /\ Len(yearlyBreakdown) >= 3
  /\ yearlyBreakdown[1].loanBalance = 0
  /\ yearlyBreakdown[2].loanBalance = 0
  /\ yearlyBreakdown[3].cumulativeOwnershipCost
       = yearlyBreakdown[2].cumulativeOwnershipCost
           + yearlyBreakdown[3].yearlyOwnershipCost + 4915200

\* C25: no record has loanBalance < 0 and no record's equity exceeds its
\* propertyValue; inside the month loop the balance is never below zero, and the
\* loop goes on to a further month only while the balance is not zero.
C25_BalanceFloored ==
  (call.fn = "calculateRentVsBuy" /\ pc # "start") =>
    /\ \A y \in 1..Len(yearlyBreakdown) :
         /\ ~Lt(yearlyBreakdown[y].loanBalance, 0)
         /\ ~Gt(yearlyBreakdown[y].equity, yearlyBreakdown[y].propertyValue)
    /\ pc \in {"month", "yearEnd"} => ~Lt(currentLoanBalance, 0)
    /\ (pc = "month" /\ month >= 1) => currentLoanBalance # 0
    /\ (pc = "yearEnd" /\ month < 12) => currentLoanBalance = 0

\* Year 2 of a loan repaid in year 1: the first month's payment of 409,600 meets a
\* zero balance, which stays zero, and the month loop is left at once.
C25_Witness ==
  /\ call.fn = "calculateRentVsBuy"
  /\ monthlyRepayment = 409600
  /\ pc = "yearEnd"
  /\ year = 2
  /\ month = 0
  /\ currentLoanBalance = 0
  /\ yearlyBreakdown[1].loanBalance = 0
  /\ yearlyBreakdown[1].equity = yearlyBreakdown[1].propertyValue

\* loanAmount / propertyPrice of a calculateLMI call.
CallLVR == Rat(call.loanAmount, call.propertyPrice)

\* The scheme exemption does not apply: flag off, or not a first-home buyer, or price
\* above the cap, or deposit below 5%.
NotExempt ==
  \/ ~call.use5PercentScheme
  \/ ~call.isFirstHome
  \/ call.propertyPrice > 1000000
  \/ ~RLe(Rat(5, 100), RSub(RInt(1), CallLVR))

\* C26: with LVR > 80% and no scheme exemption, calculateLMI returns
\* round(loanAmount * 0.03 * (LVR - 0.80) * 2); at 95% LVR that premium is not zero,
\* also with the scheme flag on for a buyer who is not eligible.
C26_LMIPremium ==
  (IsCall("calculateLMI") /\ ~RLe(CallLVR, Rat(80, 100)) /\ NotExempt) =>
    /\ ret.state = "returned"
    /\ ret.value = MathRound(RMul(RInt(call.loanAmount),
                       RMul(RMul(Rat(3, 100), RSub(CallLVR, Rat(80, 100))), RInt(2))))
    /\ CallLVR = Rat(95, 100) => ret.value > 0

\* 570,000 on 600,000 (95%) with the scheme flag on for a buyer who is not a
\* first-home buyer: the premium is 570,000 * 0.03 * 0.15 * 2 = 5,130.
C26_Witness ==
  /\ IsCall("calculateLMI")
  /\ call.loanAmount = 570000 /\ call.propertyPrice = 600000
  /\ call.use5PercentScheme /\ ~call.isFirstHome
  /\ ret.value = 5130

\* A request met a cache entry that could be read and was less than 90 days old.
HadFreshCache(request) ==
  /\ request.cacheBefore.state = "written"
  /\ request.at - request.cacheBefore.cachedAt < 90

C28_StaleFallback ==
  call.fn = "GET" =>
    \A i \in 1..Len(served) :
      LET e == served[i]
          body == e.response.body
      IN  (e.fetched /\ e.outcome.state = "thrown") =>
            /\ (e.cacheAfter.state = "written"
                  /\ e.doneAt - e.cacheAfter.cachedAt >= 90)
                 => /\ e.response.status = 200
                    /\ body.success
                    /\ "stale" \in DOMAIN body /\ body.stale
                    /\ body.data = e.cacheAfter.data
            /\ e.response.status = 500
                 => ~body.success /\ e.cacheAfter.state # "written"

\* C29: for a fixed first-home flag calculateStampDuty does not decrease as the price
\* rises, and without the flag it has no jump at a bracket threshold: at the threshold
\* the duty, computed from the bracket below, is the base of the bracket that starts
\* there (1,050 at 75,000; 17,325 at 540,000; 38,025 at 1,000,000), and one dollar
\* above it the duty is at most a dollar more.
C29_MonotoneContinuous ==
  IsCall("calculateStampDuty") =>
    LET price == call.propertyPrice
        bases == {<<75000, 1050>>, <<540000, 17325>>, <<1000000, 38025>>}
    IN  /\ \A lower \in Prices \cup {price - 1} :
             (0 <= lower /\ lower <= price)
               => calculateStampDuty(lower, call.isFirstHome) <= ret.value
        /\ ~call.isFirstHome =>
             \A b \in bases :
               /\ price = b[1] => ret.value = b[2]
               /\ price = b[1] + 1 => ret.value \in {b[2], b[2] + 1}

\* 540,000 without the flag: 1,050 + 465,000 * 0.035 = 17,325 from the bracket below,
\* and 17,325 again from the bracket above at 540,001.
C29_Witness ==
  /\ IsCall("calculateStampDuty")
  /\ call.propertyPrice = 540000 /\ ~call.isFirstHome
  /\ ret.value = 17325
  /\ calculateStampDuty(540001, FALSE) = 17325

\* The sum over the records of years 1..y of yearlyOwnershipCost + 12 * monthlyRepayment.
RECURSIVE CostSum(_)
CostSum(y) ==
  IF y = 0 THEN 0
  ELSE Add(CostSum(y - 1),
           Add(yearlyBreakdown[y].yearlyOwnershipCost,
               IF IsNaN(monthlyRepayment) THEN NaN ELSE 12 * monthlyRepayment))

\* C30: upfrontCosts.total = stampDuty + lmi + legalFees + inspections; the
\* cumulativeOwnershipCost of the record of year y is that total plus the sum over
\* years 1..y of yearlyOwnershipCost + 12 * monthlyRepayment; with costs that are not
\* negative it never decreases from one year to the next.
C30_CumulativeCost ==
  (call.fn = "calculateRentVsBuy" /\ pc # "start") =>
    LET n == Len(yearlyBreakdown)
        cost(y) == IF y = 0 THEN upfrontCosts.total
                   ELSE yearlyBreakdown[y].cumulativeOwnershipCost
    IN  /\ upfrontCosts.stampDuty
             = calculateStampDuty(inputs.propertyPrice, inputs.isFirstHome)
        /\ upfrontCosts.lmi
             = calculateLMI(inputs.propertyPrice - inputs.deposit, inputs.propertyPrice,
                            inputs.isFirstHome, OrElse(inputs.use5PercentScheme, FALSE))
        /\ upfrontCosts.legalFees = 1500
        /\ upfrontCosts.inspections = 500 + 300
        /\ upfrontCosts.total = upfrontCosts.stampDuty + upfrontCosts.lmi
                                  + upfrontCosts.legalFees + upfrontCosts.inspections
        /\ \A y \in 1..n : cost(y) = Add(upfrontCosts.total, CostSum(y))
        /\ (/\ Le(0, monthlyRepayment)
             /\ \A y \in 1..n : yearlyBreakdown[y].yearlyOwnershipCost >= 0)
             => \A y \in 1..n : cost(y - 1) <= cost(y)
        /\ ret.state = "returned" => ret.value.upfrontCosts = upfrontCosts

\* 455,000 with a deposit of 45,500: duty 14,350, premium 2,457, fees 1,500 and 800,
\* 19,107 in all; two years of costs and of 12 * 409,600 on top of it in year 2.
C30_Witness ==
  /\ call.fn = "calculateRentVsBuy"
  /\ pc # "start"
  /\ inputs.propertyPrice = 455000
  /\ upfrontCosts.total = 19107
  /\ Len(yearlyBreakdown) >= 2
  /\ yearlyBreakdown[2].cumulativeOwnershipCost
       = 19107 + yearlyBreakdown[1].yearlyOwnershipCost
               + yearlyBreakdown[2].yearlyOwnershipCost + 2 * 4915200

====
